---- MODULE Spec2Model ----
(***************************************************************************)
(* Model of the merch-store usecase layer (internal/usecase/employee.go)   *)
(* running against the PostgreSQL tables of migrations/*.sql through the   *)
(* statements of internal/repository/employee.go.                          *)
(*                                                                         *)
(* Request workers (Procs) execute GetEmployeeInfo, TransferCoins,         *)
(* BuyMerch and Authenticate concurrently, one query per step.             *)
(* Statements issued on a pgx.Tx are buffered in tx[p] and become visible  *)
(* at Commit; an UPDATE of an employees row takes the row lock until the   *)
(* transaction ends (READ COMMITTED, the default of db.Begin).  Statements *)
(* issued on the pool are autocommitted.  Any repository call may fail.    *)
(*                                                                         *)
(* The handlers of internal/delivery/http/handler.go (SendCoin, BuyItem,   *)
(* GetInfo, Authenticate) call the usecase functions and map what they     *)
(* return to an HTTP status.                                               *)
(***************************************************************************)
EXTENDS Integers, Sequences, FiniteSets, TLC

\* ---------------------------------------------------------------- bounds
NumProcs == 2       \* concurrent request workers
MaxAccounts == 2    \* rows of the employees table
MaxOps == 3         \* usecase invocations in one behaviour
MaxFaults == 1      \* repository calls that fail in one behaviour

\* ------------------------------------------------------- program constants
StartCoins == 1000  \* Coins of a new employee (Authenticate)

Procs == 1..NumProcs
IDs == 1..MaxAccounts

\* rows seeded into merch: name -> price
Merch ==
    ("t-shirt" :> 80) @@ ("cup" :> 20) @@ ("book" :> 50) @@ ("pen" :> 10) @@
    ("powerbank" :> 200) @@ ("hoody" :> 300) @@ ("umbrella" :> 200) @@
    ("socks" :> 10) @@ ("wallet" :> 50) @@ ("pink-hoody" :> 500)

\* ------------------------------------------------------------ input sets
Amounts == {0 - StartCoins - (StartCoins \div 2), 0, StartCoins \div 2,
            StartCoins + (StartCoins \div 2)}
ItemNames == {"pink-hoody", "sticker"}
Usernames == {"alice", "bob"}
Passwords == {"pw1", "pw2"}

\* ------------------------------------------------------------ error values
NoErr == "nil"
ErrNoRows == "no rows in result set"
ErrPersistence == "persistence failure"
ErrInsufficient == "insufficient coins"
ErrInvalidCredentials == "invalid credentials"
ErrCreate == "failed to create new user"

VARIABLES
    employees,      \* employees table: id (index) -> [name, password, coins]
    inventory,      \* inventory table: <<employee_id, type>> -> quantity
    transactions,   \* transactions table, in insertion order
    pc,             \* position of each worker
    args,           \* arguments of the invocation a worker executes
    loc,            \* its local variables
    tx,             \* its open pgx.Tx: uncommitted writes and held row locks
    ops,            \* invocations started
    faults,         \* repository calls that failed
    spent,          \* sum of the prices of the purchases that returned success
    written         \* statements and transactions that have changed the tables

vars == <<employees, inventory, transactions, pc, args, loc, tx, ops, faults, spent, written>>

\* op .. password: the usecase function a worker runs and its arguments;
\* req .. toUser: the request a handler serves (its route, whether its body
\* decodes, whether its context carries claims, claims.Username, toUser)
NoArgs == [op |-> "none", from |-> 0, to |-> 0, amount |-> 0, item |-> "",
           name |-> "", password |-> "",
           req |-> "", body |-> FALSE, claims |-> FALSE, user |-> "", toUser |-> ""]
\* entity.InfoResponse{}
NoInfo == [coins |-> 0, inventory |-> {}, received |-> <<>>, sent |-> <<>>]
\* fromCoins, toCoins, coins, price, err, info: locals and results of the usecase
\* functions; began, writes, commits, rollbacks, durable: what the invocation
\* did to the database (BeginTransaction succeeded, statements it issued that
\* wrote, calls of Commit and of Rollback, all its writes are committed);
\* v0, v1: the value of written at the first and at the last read of a
\* GetEmployeeInfo; views: what the committed tables held for its account at
\* its first read and after every write committed since;
\* status: the HTTP status a handler has written (0: none yet); called: the
\* usecase functions the handler has called
NoLoc == [fromCoins |-> 0, toCoins |-> 0, coins |-> 0, price |-> 0, err |-> NoErr,
          info |-> NoInfo, began |-> FALSE, writes |-> 0, commits |-> 0,
          rollbacks |-> 0, durable |-> FALSE, v0 |-> 0, v1 |-> 0, views |-> {},
          status |-> 0, called |-> {}]
NoTx == [coins |-> [i \in {} |-> 0], recs |-> <<>>]
Init ==
    /\ employees = <<>>
    /\ inventory = [k \in {} |-> 0]
    /\ transactions = <<>>
    /\ pc = [p \in Procs |-> "idle"]
    /\ args = [p \in Procs |-> NoArgs]
    /\ loc = [p \in Procs |-> NoLoc]
    /\ tx = [p \in Procs |-> NoTx]
    /\ ops = 0
    /\ faults = 0
    /\ spent = 0
    /\ written = 0

\* ------------------------------------------------------------- the database
Exists(id) == id \in 1..Len(employees)

\* SELECT ... FROM employees WHERE id = $1 on a transaction: its own writes,
\* else the committed row.
TxCoins(p, id) ==
    IF id \in DOMAIN tx[p].coins THEN tx[p].coins[id] ELSE employees[id].coins

\* UpdateEmployeeCoinsTx: the write is buffered and the row stays locked
TxWrite(t, id, v) ==
    [t EXCEPT !.coins = [i \in DOMAIN t.coins \cup {id} |->
                            IF i = id THEN v ELSE t.coins[i]]]

\* the row is locked by the uncommitted UPDATE of another transaction
LockedByOther(p, id) == \E q \in Procs \ {p} : id \in DOMAIN tx[q].coins

\* variant: the UPDATE has no WHERE clause
SetCoinsEveryRow(tbl, id, v) ==
    [i \in 1..Len(tbl) |-> [tbl[i] EXCEPT !.coins = v]]

\* UPDATE employees SET coins = $1 WHERE id = $2
SetCoins(tbl, id, v) ==
    [i \in 1..Len(tbl) |-> IF i = id THEN [tbl[i] EXCEPT !.coins = v] ELSE tbl[i]]

\* the outcomes a repository call can have: it succeeds, or it fails
Outcomes == IF faults < MaxFaults THEN {"ok", "fault"} ELSE {"ok"}
Count(o) == IF o = "fault" THEN faults + 1 ELSE faults

\* the row a worker's pending UPDATE needs
WaitRow(p) == IF pc[p] = "t_updFrom" THEN args[p].from ELSE args[p].to
WaitsFor(p, q) ==
    /\ p # q
    /\ pc[p] \in {"t_updFrom", "t_updTo"}
    /\ WaitRow(p) \in DOMAIN tx[q].coins
RECURSIVE Reaches(_, _, _)
Reaches(p, q, n) ==
    \/ WaitsFor(p, q)
    \/ /\ n > 0
       /\ \E r \in Procs : WaitsFor(p, r) /\ Reaches(r, q, n - 1)
\* PostgreSQL's deadlock detector aborts the statement of a waiter in a cycle
Deadlocked(p) == Reaches(p, p, NumProcs)

\* variant: no deadlock detection, a waiter in a cycle waits for ever
UpdateTxOutcomesNoDetector(p, id) ==
    (IF LockedByOther(p, id) THEN {} ELSE {"ok"})
        \cup (IF faults < MaxFaults THEN {"fault"} ELSE {})

UpdateTxOutcomes(p, id) ==
    (IF LockedByOther(p, id) THEN {} ELSE {"ok"})
        \cup (IF faults < MaxFaults THEN {"fault"} ELSE {})
        \cup (IF Deadlocked(p) THEN {"deadlock"} ELSE {})

\* SELECT type, quantity FROM inventory WHERE employee_id = $1
InventoryOf(inv, id) ==
    {[type |-> k[2], quantity |-> inv[k]] : k \in {j \in DOMAIN inv : j[1] = id}}

\* SELECT from_user_id, amount FROM transactions WHERE to_user_id = $1
RECURSIVE ReceivedBy(_, _)
ReceivedBy(tbl, id) ==
    IF tbl = <<>> THEN <<>>
    ELSE (IF Head(tbl).to = id
          THEN <<[user |-> Head(tbl).from, amount |-> Head(tbl).amount]>>
          ELSE <<>>) \o ReceivedBy(Tail(tbl), id)

\* SELECT to_user_id, amount FROM transactions WHERE from_user_id = $1
RECURSIVE SentBy(_, _)
SentBy(tbl, id) ==
    IF tbl = <<>> THEN <<>>
    ELSE (IF Head(tbl).from = id
          THEN <<[user |-> Head(tbl).to, amount |-> Head(tbl).amount]>>
          ELSE <<>>) \o SentBy(Tail(tbl), id)

\* what the committed tables hold for one account
View(emp, inv, trs, id) ==
    [coins |-> emp[id].coins, inventory |-> InventoryOf(inv, id),
     received |-> ReceivedBy(trs, id), sent |-> SentBy(trs, id)]

\* a write is committed while summaries are between their first and their
\* last read
Reading == {"i_inv", "i_recv", "i_sent"}
Observe(l, emp, inv, trs) ==
    [q \in Procs |->
        IF pc[q] \in Reading
        THEN [l[q] EXCEPT !.views = @ \cup {View(emp, inv, trs, args[q].from)}]
        ELSE l[q]]

\* --------------------------------------------------------------- returning
\* the invocation returns e; the worker holds the outcome until it answers
Return(p, e, commits, rollbacks, durable) ==
    /\ pc' = [pc EXCEPT ![p] = "done"]
    /\ loc' = [loc EXCEPT ![p].err = e, ![p].commits = commits,
                          ![p].rollbacks = rollbacks, ![p].durable = durable,
                          ![p].info = NoInfo, ![p].views = {}]
    /\ args' = args

\* ------------------------------------------------------------ TransferCoins
TransferCoins(p, fromEmployeeID, toEmployeeID, amount) ==
    /\ pc[p] = "idle"
    /\ ops < MaxOps
    /\ ops' = ops + 1
    /\ pc' = [pc EXCEPT ![p] = "t_begin"]
    /\ args' = [args EXCEPT ![p] = [NoArgs EXCEPT !.op = "transfer",
                  !.from = fromEmployeeID, !.to = toEmployeeID, !.amount = amount]]
    /\ UNCHANGED <<employees, inventory, transactions, loc, tx, faults, spent, written>>

BeginTransaction(p) ==
    /\ pc[p] = "t_begin"
    /\ \E o \in Outcomes :
        /\ faults' = Count(o)
        /\ IF o = "ok"
           THEN /\ pc' = [pc EXCEPT ![p] = "t_from"]
                /\ loc' = [loc EXCEPT ![p].began = TRUE]
                /\ args' = args
           ELSE Return(p, ErrPersistence, 0, 0, FALSE)
    /\ UNCHANGED <<employees, inventory, transactions, tx, ops, spent, written>>

\* the error GetEmployeeByIDTx returns
ReadErr(o, id) ==
    IF o = "fault" THEN ErrPersistence ELSE IF Exists(id) THEN NoErr ELSE ErrNoRows

\* variant: the recipient is looked up before the balance is compared
GetFromEmployeeRecipientFirst(p) ==
    /\ pc[p] = "t_from"
    /\ \E o \in Outcomes :
        LET e == ReadErr(o, args[p].from)
            c == IF e = NoErr THEN TxCoins(p, args[p].from) ELSE 0
        IN  /\ faults' = Count(o)
            /\ IF e # NoErr
               THEN /\ loc' = [loc EXCEPT ![p].err = e]
                    /\ pc' = [pc EXCEPT ![p] = "t_defer"]
               ELSE IF ~Exists(args[p].to)
               THEN /\ loc' = [loc EXCEPT ![p].fromCoins = c, ![p].err = ErrNoRows]
                    /\ pc' = [pc EXCEPT ![p] = "t_defer"]
               ELSE IF c < args[p].amount
               THEN /\ loc' = [loc EXCEPT ![p].fromCoins = c, ![p].err = ErrInsufficient]
                    /\ pc' = [pc EXCEPT ![p] = "t_defer"]
               ELSE /\ loc' = [loc EXCEPT ![p].fromCoins = c]
                    /\ pc' = [pc EXCEPT ![p] = "t_to"]
    /\ UNCHANGED <<employees, inventory, transactions, args, tx, ops, spent, written>>

GetFromEmployee(p) ==
    /\ pc[p] = "t_from"
    /\ \E o \in Outcomes :
        LET e == ReadErr(o, args[p].from)
            c == IF e = NoErr THEN TxCoins(p, args[p].from) ELSE 0
        IN  /\ faults' = Count(o)
            /\ IF e # NoErr
               THEN /\ loc' = [loc EXCEPT ![p].err = e]
                    /\ pc' = [pc EXCEPT ![p] = "t_defer"]
               ELSE IF c < args[p].amount
               THEN /\ loc' = [loc EXCEPT ![p].fromCoins = c, ![p].err = ErrInsufficient]
                    /\ pc' = [pc EXCEPT ![p] = "t_defer"]
               ELSE /\ loc' = [loc EXCEPT ![p].fromCoins = c]
                    /\ pc' = [pc EXCEPT ![p] = "t_to"]
    /\ UNCHANGED <<employees, inventory, transactions, args, tx, ops, spent, written>>

\* variant: the sender is debited before the recipient is looked up
GetToEmployeeAfterDebit(p) ==
    /\ pc[p] = "t_to"
    /\ \E o \in Outcomes :
        LET e == ReadErr(o, args[p].to)
        IN  /\ faults' = Count(o)
            /\ IF e # NoErr
               THEN /\ loc' = [loc EXCEPT ![p].err = e, ![p].writes = @ + 1]
                    /\ pc' = [pc EXCEPT ![p] = "t_defer"]
               ELSE /\ loc' = [loc EXCEPT ![p].toCoins = TxCoins(p, args[p].to),
                                          ![p].writes = @ + 1]
                    /\ pc' = [pc EXCEPT ![p] = "t_updTo"]
    /\ tx' = [tx EXCEPT ![p] =
                TxWrite(tx[p], args[p].from, loc[p].fromCoins - args[p].amount)]
    /\ UNCHANGED <<employees, inventory, transactions, args, ops, spent, written>>

GetToEmployee(p) ==
    /\ pc[p] = "t_to"
    /\ \E o \in Outcomes :
        LET e == ReadErr(o, args[p].to)
        IN  /\ faults' = Count(o)
            /\ IF e # NoErr
               THEN /\ loc' = [loc EXCEPT ![p].err = e]
                    /\ pc' = [pc EXCEPT ![p] = "t_defer"]
               ELSE /\ loc' = [loc EXCEPT ![p].toCoins = TxCoins(p, args[p].to)]
                    /\ pc' = [pc EXCEPT ![p] = "t_updFrom"]
    /\ UNCHANGED <<employees, inventory, transactions, args, tx, ops, spent, written>>

UpdateFromCoins(p) ==
    /\ pc[p] = "t_updFrom"
    /\ \E o \in UpdateTxOutcomes(p, args[p].from) :
        /\ faults' = Count(o)
        /\ IF o = "ok"
           THEN /\ tx' = [tx EXCEPT ![p] =
                            TxWrite(tx[p], args[p].from, loc[p].fromCoins - args[p].amount)]
                /\ pc' = [pc EXCEPT ![p] = "t_updTo"]
                /\ loc' = [loc EXCEPT ![p].writes = @ + 1]
           ELSE /\ loc' = [loc EXCEPT ![p].err = ErrPersistence]
                /\ pc' = [pc EXCEPT ![p] = "t_defer"]
                /\ tx' = tx
    /\ UNCHANGED <<employees, inventory, transactions, args, ops, spent, written>>

UpdateToCoins(p) ==
    /\ pc[p] = "t_updTo"
    /\ \E o \in UpdateTxOutcomes(p, args[p].to) :
        /\ faults' = Count(o)
        /\ IF o = "ok"
           THEN /\ tx' = [tx EXCEPT ![p] =
                            TxWrite(tx[p], args[p].to, loc[p].toCoins + args[p].amount)]
                /\ pc' = [pc EXCEPT ![p] = "t_record"]
                /\ loc' = [loc EXCEPT ![p].writes = @ + 1]
           ELSE /\ loc' = [loc EXCEPT ![p].err = ErrPersistence]
                /\ pc' = [pc EXCEPT ![p] = "t_defer"]
                /\ tx' = tx
    /\ UNCHANGED <<employees, inventory, transactions, args, ops, spent, written>>

\* variant: the error of the ledger insert is dropped
RecordTransactionTxUnchecked(p) ==
    /\ pc[p] = "t_record"
    /\ \E o \in Outcomes :
        /\ faults' = Count(o)
        /\ IF o = "ok"
           THEN /\ tx' = [tx EXCEPT ![p].recs = Append(@,
                            [from |-> args[p].from, to |-> args[p].to,
                             amount |-> args[p].amount])]
                /\ loc' = [loc EXCEPT ![p].writes = @ + 1]
           ELSE UNCHANGED <<tx, loc>>
        /\ pc' = [pc EXCEPT ![p] = "t_defer"]
    /\ UNCHANGED <<employees, inventory, transactions, args, ops, spent, written>>

RecordTransactionTx(p) ==
    /\ pc[p] = "t_record"
    /\ \E o \in Outcomes :
        /\ faults' = Count(o)
        /\ IF o = "ok"
           THEN /\ tx' = [tx EXCEPT ![p].recs = Append(@,
                            [from |-> args[p].from, to |-> args[p].to,
                             amount |-> args[p].amount])]
                /\ loc' = [loc EXCEPT ![p].writes = @ + 1]
           ELSE /\ loc' = [loc EXCEPT ![p].err = ErrPersistence]
                /\ tx' = tx
        /\ pc' = [pc EXCEPT ![p] = "t_defer"]
    /\ UNCHANGED <<employees, inventory, transactions, args, ops, spent, written>>

\* variant: the closure receives the error by value, nil when it is deferred
DeferredCommitsByValue(e) == TRUE

\* the deferred closure: Rollback when the returned error is set, else Commit
DeferredCommits(e) == e = NoErr

\* the committed employees table after the transaction's writes
ApplyCoins(tbl, t) ==
    [i \in 1..Len(tbl) |->
        IF i \in DOMAIN t.coins THEN [tbl[i] EXCEPT !.coins = t.coins[i]] ELSE tbl[i]]

\* variant: Commit replaces the ledger by the transaction's records
DeferredReplacesLedger(p) ==
    /\ pc[p] = "t_defer"
    /\ \E o \in Outcomes :
        LET commit == DeferredCommits(loc[p].err)
            applied == commit /\ o = "ok"
        IN  /\ faults' = IF commit THEN Count(o) ELSE faults
            /\ employees' = IF applied THEN ApplyCoins(employees, tx[p]) ELSE employees
            /\ transactions' = IF applied THEN tx[p].recs ELSE transactions
            /\ written' = IF applied THEN written + 1 ELSE written
            /\ pc' = [pc EXCEPT ![p] = "done"]
            /\ args' = args
            /\ loc' = Observe([loc EXCEPT ![p].commits = IF commit THEN 1 ELSE 0,
                                          ![p].rollbacks = IF commit THEN 0 ELSE 1,
                                          ![p].durable = applied,
                                          ![p].info = NoInfo],
                              employees', inventory, transactions')
    /\ tx' = [tx EXCEPT ![p] = NoTx]
    /\ UNCHANGED <<inventory, ops, spent>>

Deferred(p) ==
    /\ pc[p] = "t_defer"
    /\ \E o \in Outcomes :
        LET commit == DeferredCommits(loc[p].err)
            applied == commit /\ o = "ok"
        IN  /\ faults' = IF commit THEN Count(o) ELSE faults
            /\ employees' = IF applied THEN ApplyCoins(employees, tx[p]) ELSE employees
            /\ transactions' = IF applied THEN transactions \o tx[p].recs
                               ELSE transactions
            /\ written' = IF applied THEN written + 1 ELSE written
            /\ pc' = [pc EXCEPT ![p] = "done"]
            /\ args' = args
            /\ loc' = Observe([loc EXCEPT ![p].commits = IF commit THEN 1 ELSE 0,
                                          ![p].rollbacks = IF commit THEN 0 ELSE 1,
                                          ![p].durable = applied,
                                          ![p].info = NoInfo],
                              employees', inventory, transactions')
    /\ tx' = [tx EXCEPT ![p] = NoTx]
    /\ UNCHANGED <<inventory, ops, spent>>

\* ----------------------------------------------------------------- BuyMerch
BuyMerch(p, employeeID, itemName) ==
    /\ pc[p] = "idle"
    /\ ops < MaxOps
    /\ ops' = ops + 1
    /\ pc' = [pc EXCEPT ![p] = "b_price"]
    /\ args' = [args EXCEPT ![p] = [NoArgs EXCEPT !.op = "buy",
                  !.from = employeeID, !.item = itemName]]
    /\ UNCHANGED <<employees, inventory, transactions, loc, tx, faults, spent, written>>

\* SELECT price FROM merch WHERE name = $1
GetMerchPrice(p) ==
    /\ pc[p] = "b_price"
    /\ \E o \in Outcomes :
        LET e == IF o = "fault" THEN ErrPersistence
                 ELSE IF args[p].item \in DOMAIN Merch THEN NoErr ELSE ErrNoRows
        IN  /\ faults' = Count(o)
            /\ IF e # NoErr
               THEN Return(p, e, 0, 0, FALSE)
               ELSE /\ loc' = [loc EXCEPT ![p].price = Merch[args[p].item]]
                    /\ pc' = [pc EXCEPT ![p] = "b_emp"]
                    /\ args' = args
    /\ UNCHANGED <<employees, inventory, transactions, tx, ops, spent, written>>

\* variant: the balance is debited before it is compared with the price
GetEmployeeByIDDebitFirst(p) ==
    /\ pc[p] = "b_emp"
    /\ \E o \in Outcomes :
        LET e == ReadErr(o, args[p].from)
            c == IF e = NoErr THEN employees[args[p].from].coins ELSE 0
        IN  /\ faults' = Count(o)
            /\ IF e # NoErr
               THEN /\ Return(p, e, 0, 0, FALSE)
                    /\ UNCHANGED <<employees, written>>
               ELSE /\ employees' = SetCoins(employees, args[p].from, c - loc[p].price)
                    /\ written' = written + 1
                    /\ pc' = [pc EXCEPT ![p] = IF c < loc[p].price THEN "done" ELSE "b_inv"]
                    /\ loc' = [loc EXCEPT ![p].coins = c, ![p].writes = @ + 1,
                                  ![p].err = IF c < loc[p].price THEN ErrInsufficient
                                             ELSE NoErr]
                    /\ args' = args
    /\ UNCHANGED <<inventory, transactions, tx, ops, spent>>

\* variant: a balance equal to the price is rejected
GetEmployeeByIDRejectsEqual(p) ==
    /\ pc[p] = "b_emp"
    /\ \E o \in Outcomes :
        LET e == ReadErr(o, args[p].from)
            c == IF e = NoErr THEN employees[args[p].from].coins ELSE 0
        IN  /\ faults' = Count(o)
            /\ IF e # NoErr
               THEN Return(p, e, 0, 0, FALSE)
               ELSE IF c <= loc[p].price
               THEN Return(p, ErrInsufficient, 0, 0, FALSE)
               ELSE /\ loc' = [loc EXCEPT ![p].coins = c]
                    /\ pc' = [pc EXCEPT ![p] = "b_update"]
                    /\ args' = args
    /\ UNCHANGED <<employees, inventory, transactions, tx, ops, spent, written>>

\* GetEmployeeByID on the pool reads the committed row; then the price check
GetEmployeeByID(p) ==
    /\ pc[p] = "b_emp"
    /\ \E o \in Outcomes :
        LET e == ReadErr(o, args[p].from)
            c == IF e = NoErr THEN employees[args[p].from].coins ELSE 0
        IN  /\ faults' = Count(o)
            /\ IF e # NoErr
               THEN Return(p, e, 0, 0, FALSE)
               ELSE IF c < loc[p].price
               THEN Return(p, ErrInsufficient, 0, 0, FALSE)
               ELSE /\ loc' = [loc EXCEPT ![p].coins = c]
                    /\ pc' = [pc EXCEPT ![p] = "b_update"]
                    /\ args' = args
    /\ UNCHANGED <<employees, inventory, transactions, tx, ops, spent, written>>

\* the outcomes of an autocommitted UPDATE: it waits while a transaction holds the row
UpdateOutcomes(id) ==
    (IF \E q \in Procs : id \in DOMAIN tx[q].coins THEN {} ELSE {"ok"})
        \cup (IF faults < MaxFaults THEN {"fault"} ELSE {})

UpdateEmployeeCoins(p) ==
    /\ pc[p] = "b_update"
    /\ \E o \in UpdateOutcomes(args[p].from) :
        /\ faults' = Count(o)
        /\ IF o = "ok"
           THEN /\ employees' = SetCoins(employees, args[p].from,
                                         loc[p].coins - loc[p].price)
                /\ pc' = [pc EXCEPT ![p] = "b_inv"]
                /\ loc' = Observe([loc EXCEPT ![p].writes = @ + 1],
                                  employees', inventory, transactions)
                /\ written' = written + 1
                /\ args' = args
           ELSE /\ employees' = employees
                /\ written' = written
                /\ Return(p, ErrPersistence, 0, 0, FALSE)
    /\ UNCHANGED <<inventory, transactions, tx, ops, spent>>

\* variant: ON CONFLICT (employee_id, type) DO NOTHING
UpsertDoNothing(inv, k) ==
    [j \in DOMAIN inv \cup {k} |-> IF j \in DOMAIN inv THEN inv[j] ELSE 1]

\* INSERT INTO inventory ... VALUES ($1, $2, 1) ON CONFLICT (employee_id, type)
\* DO UPDATE SET quantity = inventory.quantity + 1
Upsert(inv, k) ==
    [j \in DOMAIN inv \cup {k} |-> IF j = k
                                   THEN (IF k \in DOMAIN inv THEN inv[k] + 1 ELSE 1)
                                   ELSE inv[j]]

\* variant: the error of AddToInventory is dropped
AddToInventoryUnchecked(p) ==
    /\ pc[p] = "b_inv"
    /\ \E o \in Outcomes :
        /\ faults' = Count(o)
        /\ inventory' = IF o = "ok"
                        THEN Upsert(inventory, <<args[p].from, args[p].item>>)
                        ELSE inventory
        /\ spent' = spent + loc[p].price
        /\ written' = IF o = "ok" THEN written + 1 ELSE written
        /\ loc' = Observe([loc EXCEPT
                              ![p].err = NoErr,
                              ![p].writes = IF o = "ok" THEN @ + 1 ELSE @,
                              ![p].durable = o = "ok"],
                          employees, inventory', transactions)
        /\ pc' = [pc EXCEPT ![p] = "done"]
    /\ UNCHANGED <<employees, transactions, args, tx, ops>>

AddToInventory(p) ==
    /\ pc[p] = "b_inv"
    /\ \E o \in Outcomes :
        /\ faults' = Count(o)
        /\ inventory' = IF o = "ok"
                        THEN Upsert(inventory, <<args[p].from, args[p].item>>)
                        ELSE inventory
        /\ spent' = IF o = "ok" THEN spent + loc[p].price ELSE spent
        /\ written' = IF o = "ok" THEN written + 1 ELSE written
        /\ loc' = Observe([loc EXCEPT
                              ![p].err = IF o = "ok" THEN NoErr ELSE ErrPersistence,
                              ![p].writes = IF o = "ok" THEN @ + 1 ELSE @,
                              ![p].durable = o = "ok"],
                          employees, inventory', transactions)
        /\ pc' = [pc EXCEPT ![p] = "done"]
    /\ UNCHANGED <<employees, transactions, args, tx, ops>>

\* ---------------------------------------------------------- GetEmployeeInfo
GetEmployeeInfo(p, employeeID) ==
    /\ pc[p] = "idle"
    /\ ops < MaxOps
    /\ ops' = ops + 1
    /\ pc' = [pc EXCEPT ![p] = "i_emp"]
    /\ args' = [args EXCEPT ![p] = [NoArgs EXCEPT !.op = "info", !.from = employeeID]]
    /\ UNCHANGED <<employees, inventory, transactions, loc, tx, faults, spent, written>>

\* GetEmployeeByID on the pool: the committed row
InfoGetEmployeeByID(p) ==
    /\ pc[p] = "i_emp"
    /\ \E o \in Outcomes :
        LET e == ReadErr(o, args[p].from)
        IN  /\ faults' = Count(o)
            /\ IF e # NoErr
               THEN Return(p, e, 0, 0, FALSE)
               ELSE /\ loc' = [loc EXCEPT ![p].info.coins = employees[args[p].from].coins,
                                          ![p].v0 = written,
                                          ![p].views = {View(employees, inventory,
                                                             transactions, args[p].from)}]
                    /\ pc' = [pc EXCEPT ![p] = "i_inv"]
                    /\ args' = args
    /\ UNCHANGED <<employees, inventory, transactions, tx, ops, spent, written>>

\* variant: the rows that were read are deleted
GetEmployeeInventoryCollect(p) ==
    /\ pc[p] = "i_inv"
    /\ \E o \in Outcomes :
        /\ faults' = Count(o)
        /\ IF o = "ok"
           THEN /\ loc' = [loc EXCEPT ![p].info.inventory =
                                        InventoryOf(inventory, args[p].from)]
                /\ inventory' = [k \in {j \in DOMAIN inventory : j[1] # args[p].from}
                                    |-> inventory[k]]
                /\ written' = IF inventory' # inventory THEN written + 1 ELSE written
                /\ pc' = [pc EXCEPT ![p] = "i_recv"]
                /\ args' = args
           ELSE /\ Return(p, ErrPersistence, 0, 0, FALSE)
                /\ UNCHANGED <<inventory, written>>
    /\ UNCHANGED <<employees, transactions, tx, ops, spent>>

GetEmployeeInventory(p) ==
    /\ pc[p] = "i_inv"
    /\ \E o \in Outcomes :
        /\ faults' = Count(o)
        /\ IF o = "ok"
           THEN /\ loc' = [loc EXCEPT ![p].info.inventory =
                                        InventoryOf(inventory, args[p].from)]
                /\ pc' = [pc EXCEPT ![p] = "i_recv"]
                /\ args' = args
           ELSE /\ Return(p, ErrPersistence, 0, 0, FALSE)
    /\ UNCHANGED <<employees, inventory, transactions, tx, ops, spent, written>>

\* GetEmployeeCoinHistory, its first query
GetEmployeeCoinHistoryR(p) ==
    /\ pc[p] = "i_recv"
    /\ \E o \in Outcomes :
        /\ faults' = Count(o)
        /\ IF o = "ok"
           THEN /\ loc' = [loc EXCEPT ![p].info.received =
                                        ReceivedBy(transactions, args[p].from)]
                /\ pc' = [pc EXCEPT ![p] = "i_sent"]
                /\ args' = args
           ELSE /\ Return(p, ErrPersistence, 0, 0, FALSE)
    /\ UNCHANGED <<employees, inventory, transactions, tx, ops, spent, written>>

\* GetEmployeeCoinHistory, its second query, and the return of GetEmployeeInfo
GetEmployeeCoinHistoryS(p) ==
    /\ pc[p] = "i_sent"
    /\ \E o \in Outcomes :
        /\ faults' = Count(o)
        /\ IF o = "ok"
           THEN /\ loc' = [loc EXCEPT ![p].info.sent = SentBy(transactions, args[p].from),
                                      ![p].v1 = written]
                /\ pc' = [pc EXCEPT ![p] = "done"]
                /\ args' = args
           ELSE /\ Return(p, ErrPersistence, 0, 0, FALSE)
    /\ UNCHANGED <<employees, inventory, transactions, tx, ops, spent, written>>

\* ------------------------------------------------------------- Authenticate
Authenticating == {q \in Procs : pc[q] \in {"h_decode", "a_get", "a_create"}}

Authenticate(p, username, password) ==
    /\ pc[p] = "idle"
    /\ ops < MaxOps
    /\ Len(employees) + Cardinality(Authenticating) < MaxAccounts
    /\ ops' = ops + 1
    /\ pc' = [pc EXCEPT ![p] = "a_get"]
    /\ args' = [args EXCEPT ![p] = [NoArgs EXCEPT !.op = "auth",
                  !.name = username, !.password = password]]
    /\ UNCHANGED <<employees, inventory, transactions, loc, tx, faults, spent, written>>

\* SELECT ... FROM employees WHERE name = $1: QueryRow scans one matching row
RowsNamed(username) == {i \in 1..Len(employees) : employees[i].name = username}

GetEmployeeByUsername(p) ==
    /\ pc[p] = "a_get"
    /\ \E o \in Outcomes :
        /\ faults' = Count(o)
        /\ IF o = "fault" \/ RowsNamed(args[p].name) = {}
           THEN \* any error is taken as "user not found"
                /\ pc' = [pc EXCEPT ![p] = "a_create"]
                /\ UNCHANGED <<args, loc>>
           ELSE \E i \in RowsNamed(args[p].name) :
                    Return(p, IF employees[i].password # args[p].password
                              THEN ErrInvalidCredentials ELSE NoErr,
                           0, 0, FALSE)
    /\ UNCHANGED <<employees, inventory, transactions, tx, ops, spent, written>>

\* INSERT INTO employees (name, password, coins) VALUES ($1, $2, $3)
CreateEmployee(p) ==
    /\ pc[p] = "a_create"
    /\ \E o \in Outcomes :
        /\ faults' = Count(o)
        /\ employees' = IF o = "ok"
                        THEN Append(employees, [name |-> args[p].name,
                                                password |-> args[p].password,
                                                coins |-> StartCoins])
                        ELSE employees
        /\ written' = IF o = "ok" THEN written + 1 ELSE written
        /\ Return(p, IF o = "ok" THEN NoErr ELSE ErrCreate, 0, 0, o = "ok")
    /\ UNCHANGED <<inventory, transactions, tx, ops, spent>>

\* ------------------------------------------------------------------ handler
\* the handler answers the request and the worker is free for the next one
Respond(p) ==
    /\ pc[p] = "done"
    /\ pc' = [pc EXCEPT ![p] = "idle"]
    /\ args' = [args EXCEPT ![p] = NoArgs]
    /\ loc' = [loc EXCEPT ![p] = NoLoc]
    /\ UNCHANGED <<employees, inventory, transactions, tx, ops, faults, spent, written>>

\* ------------------------------------------------------------ specification
Step(p) ==
    \/ \E f \in IDs, t \in IDs, a \in Amounts : TransferCoins(p, f, t, a)
    \/ BeginTransaction(p)
    \/ GetFromEmployee(p)
    \/ GetToEmployee(p)
    \/ UpdateFromCoins(p)
    \/ UpdateToCoins(p)
    \/ RecordTransactionTx(p)
    \/ Deferred(p)
    \/ \E i \in IDs, n \in ItemNames : BuyMerch(p, i, n)
    \/ GetMerchPrice(p)
    \/ GetEmployeeByID(p)
    \/ UpdateEmployeeCoins(p)
    \/ AddToInventory(p)
    \/ \E i \in IDs : GetEmployeeInfo(p, i)
    \/ InfoGetEmployeeByID(p)
    \/ GetEmployeeInventory(p)
    \/ GetEmployeeCoinHistoryR(p)
    \/ GetEmployeeCoinHistoryS(p)
    \/ \E u \in Usernames, w \in Passwords : Authenticate(p, u, w)
    \/ GetEmployeeByUsername(p)
    \/ CreateEmployee(p)
    \/ Respond(p)

Next == \E p \in Procs : Step(p)

Spec == Init /\ [][Next]_vars

\* one invocation at a time: a step is taken only while every other worker is idle
Solo(p) == \A q \in Procs \ {p} : pc[q] = "idle"
NextSeq ==
    \E p \in Procs :
        \/ Solo(p) /\ \E f \in IDs, t \in IDs, a \in Amounts : TransferCoins(p, f, t, a)
        \/ Solo(p) /\ BeginTransaction(p)
        \/ Solo(p) /\ GetFromEmployee(p)
        \/ Solo(p) /\ GetToEmployee(p)
        \/ Solo(p) /\ UpdateFromCoins(p)
        \/ Solo(p) /\ UpdateToCoins(p)
        \/ Solo(p) /\ RecordTransactionTx(p)
        \/ Solo(p) /\ Deferred(p)
        \/ Solo(p) /\ \E i \in IDs, n \in ItemNames : BuyMerch(p, i, n)
        \/ Solo(p) /\ GetMerchPrice(p)
        \/ Solo(p) /\ GetEmployeeByID(p)
        \/ Solo(p) /\ UpdateEmployeeCoins(p)
        \/ Solo(p) /\ AddToInventory(p)
        \/ Solo(p) /\ \E i \in IDs : GetEmployeeInfo(p, i)
        \/ Solo(p) /\ InfoGetEmployeeByID(p)
        \/ Solo(p) /\ GetEmployeeInventory(p)
        \/ Solo(p) /\ GetEmployeeCoinHistoryR(p)
        \/ Solo(p) /\ GetEmployeeCoinHistoryS(p)
        \/ Solo(p) /\ \E u \in Usernames, w \in Passwords : Authenticate(p, u, w)
        \/ Solo(p) /\ GetEmployeeByUsername(p)
        \/ Solo(p) /\ CreateEmployee(p)
        \/ Solo(p) /\ Respond(p)
SpecSeq == Init /\ [][NextSeq]_vars

\* ------------------------------------------- requests of two employees
\* Two employees have authenticated (alice and bob, ids 1 and 2).  Every worker
\* then serves one request, all of them in flight together: a transfer of a
\* whole starting balance between the two, to oneself, or from or to an id that
\* no employee has, or a purchase by employee 1.
ConcAmounts == {StartCoins}
MissingID == MaxAccounts + 1
ConcPairs == {<<1, 2>>, <<2, 1>>, <<1, 1>>, <<1, MissingID>>, <<MissingID, 1>>}
ConcItems == {"pink-hoody"}

TwoEmployees == <<[name |-> "alice", password |-> "pw1", coins |-> StartCoins],
                  [name |-> "bob", password |-> "pw1", coins |-> StartCoins]>>

InitConc ==
    /\ employees = TwoEmployees
    /\ inventory = [k \in {} |-> 0]
    /\ transactions = <<>>
    /\ pc = [p \in Procs |-> "idle"]
    /\ args = [p \in Procs |-> NoArgs]
    /\ loc = [p \in Procs |-> NoLoc]
    /\ tx = [p \in Procs |-> NoTx]
    /\ ops = 0
    /\ faults = 0
    /\ spent = 0
    /\ written = 0

StepConc(p) ==
    \/ \E ft \in ConcPairs, a \in ConcAmounts : TransferCoins(p, ft[1], ft[2], a)
    \/ BeginTransaction(p)
    \/ GetFromEmployee(p)
    \/ GetToEmployee(p)
    \/ UpdateFromCoins(p)
    \/ UpdateToCoins(p)
    \/ RecordTransactionTx(p)
    \/ Deferred(p)
    \/ \E n \in ConcItems : BuyMerch(p, 1, n)
    \/ GetMerchPrice(p)
    \/ GetEmployeeByID(p)
    \/ UpdateEmployeeCoins(p)
    \/ AddToInventory(p)

NextConc == \E p \in Procs : StepConc(p)

SpecConc == InitConc /\ [][NextConc]_vars

\* ------------------------------------------------ requests of one employee
\* The same two employees.  Every worker serves one request of employee 1: a
\* transfer of its whole starting balance to employee 2, to itself or to an id
\* that no employee has, or a purchase.
OwnPairs == {<<1, 2>>, <<1, 1>>, <<1, MissingID>>}

StepOwn(p) ==
    \/ \E ft \in OwnPairs, a \in ConcAmounts : TransferCoins(p, ft[1], ft[2], a)
    \/ BeginTransaction(p)
    \/ GetFromEmployee(p)
    \/ GetToEmployee(p)
    \/ UpdateFromCoins(p)
    \/ UpdateToCoins(p)
    \/ RecordTransactionTx(p)
    \/ Deferred(p)
    \/ \E n \in ConcItems : BuyMerch(p, 1, n)
    \/ GetMerchPrice(p)
    \/ GetEmployeeByID(p)
    \/ UpdateEmployeeCoins(p)
    \/ AddToInventory(p)

NextOwn == \E p \in Procs : StepOwn(p)

SpecOwn == InitConc /\ [][NextOwn]_vars

\* ------------------------------------------ transfers in opposite directions
\* The same two employees.  Every worker serves one transfer of a whole
\* starting balance, from employee 1 to employee 2 or back.  A worker inside
\* TransferCoins keeps running: it takes its next step unless that step waits
\* for a row lock (nothing obliges a repository call to fail).
FairPairs == {<<1, 2>>, <<2, 1>>}

TransferStep(p) ==
    \/ BeginTransaction(p)
    \/ GetFromEmployee(p)
    \/ GetToEmployee(p)
    \/ UpdateFromCoins(p)
    \/ UpdateToCoins(p)
    \/ RecordTransactionTx(p)
    \/ Deferred(p)

StepFair(p) ==
    \/ \E ft \in FairPairs, a \in ConcAmounts : TransferCoins(p, ft[1], ft[2], a)
    \/ BeginTransaction(p)
    \/ GetFromEmployee(p)
    \/ GetToEmployee(p)
    \/ UpdateFromCoins(p)
    \/ UpdateToCoins(p)
    \/ RecordTransactionTx(p)
    \/ Deferred(p)

NextFair == \E p \in Procs : StepFair(p)

SpecFair ==
    /\ InitConc
    /\ [][NextFair]_vars
    /\ \A p \in Procs : WF_vars(TransferStep(p) /\ faults' = faults)

\* --------------------------------------- purchases, a transfer and summaries
\* The same two employees.  Every worker serves one request, all in flight
\* together: a purchase by employee 1 or by an id that no employee has, of an
\* item of the catalog or of one that is not in it, the transfer of employee 1's
\* whole starting balance to employee 2, or the summary of employee 1.
ShopBuyers == {1, MissingID}

StepShop(p) ==
    \/ \E i \in ShopBuyers, n \in ItemNames : BuyMerch(p, i, n)
    \/ GetMerchPrice(p)
    \/ GetEmployeeByID(p)
    \/ UpdateEmployeeCoins(p)
    \/ AddToInventory(p)
    \/ \E a \in ConcAmounts : TransferCoins(p, 1, 2, a)
    \/ BeginTransaction(p)
    \/ GetFromEmployee(p)
    \/ GetToEmployee(p)
    \/ UpdateFromCoins(p)
    \/ UpdateToCoins(p)
    \/ RecordTransactionTx(p)
    \/ Deferred(p)
    \/ GetEmployeeInfo(p, 1)
    \/ InfoGetEmployeeByID(p)
    \/ GetEmployeeInventory(p)
    \/ GetEmployeeCoinHistoryR(p)
    \/ GetEmployeeCoinHistoryS(p)

NextShop == \E p \in Procs : StepShop(p)

SpecShop == InitConc /\ [][NextShop]_vars

\* --------------------------------------------- summaries between the writes
\* The same two employees.  The workers serve requests one after another, in
\* flight together: purchases of one item by employee 1, transfers of its whole
\* starting balance to employee 2, and summaries of employee 1.
StepRead(p) ==
    \/ \E n \in ConcItems : BuyMerch(p, 1, n)
    \/ GetMerchPrice(p)
    \/ GetEmployeeByID(p)
    \/ UpdateEmployeeCoins(p)
    \/ AddToInventory(p)
    \/ \E a \in ConcAmounts : TransferCoins(p, 1, 2, a)
    \/ BeginTransaction(p)
    \/ GetFromEmployee(p)
    \/ GetToEmployee(p)
    \/ UpdateFromCoins(p)
    \/ UpdateToCoins(p)
    \/ RecordTransactionTx(p)
    \/ Deferred(p)
    \/ GetEmployeeInfo(p, 1)
    \/ InfoGetEmployeeByID(p)
    \/ GetEmployeeInventory(p)
    \/ GetEmployeeCoinHistoryR(p)
    \/ GetEmployeeCoinHistoryS(p)
    \/ Respond(p)

NextRead == \E p \in Procs : StepRead(p)

SpecRead == InitConc /\ [][NextRead]_vars

\* ------------------------------------------- the same requests, one at a time
\* The same two employees; a request is served only while no other is in
\* flight, and the worker is then free for the next one.
SoloAmounts == {StartCoins \div 5, StartCoins}
SoloPairs == {<<1, 2>>, <<2, 1>>}

NextSolo ==
    \E p \in Procs :
        \/ Solo(p) /\ \E ft \in SoloPairs, a \in SoloAmounts :
                          TransferCoins(p, ft[1], ft[2], a)
        \/ Solo(p) /\ BeginTransaction(p)
        \/ Solo(p) /\ GetFromEmployee(p)
        \/ Solo(p) /\ GetToEmployee(p)
        \/ Solo(p) /\ UpdateFromCoins(p)
        \/ Solo(p) /\ UpdateToCoins(p)
        \/ Solo(p) /\ RecordTransactionTx(p)
        \/ Solo(p) /\ Deferred(p)
        \/ Solo(p) /\ \E i \in ShopBuyers, n \in ItemNames : BuyMerch(p, i, n)
        \/ Solo(p) /\ GetMerchPrice(p)
        \/ Solo(p) /\ GetEmployeeByID(p)
        \/ Solo(p) /\ UpdateEmployeeCoins(p)
        \/ Solo(p) /\ AddToInventory(p)
        \/ Solo(p) /\ \E i \in {1, 2} : GetEmployeeInfo(p, i)
        \/ Solo(p) /\ InfoGetEmployeeByID(p)
        \/ Solo(p) /\ GetEmployeeInventory(p)
        \/ Solo(p) /\ GetEmployeeCoinHistoryR(p)
        \/ Solo(p) /\ GetEmployeeCoinHistoryS(p)
        \/ Solo(p) /\ Respond(p)

SpecSolo == InitConc /\ [][NextSolo]_vars

\* ------------------------------------------------- the tables as they grow
\* One employee has authenticated (alice, id 1).  Requests are then served
\* one at a time: further logins, transfers between ids 1 and 2 and purchases by
\* employee 1.
OneEmployee == <<TwoEmployees[1]>>

InitGrow ==
    /\ employees = OneEmployee
    /\ inventory = [k \in {} |-> 0]
    /\ transactions = <<>>
    /\ pc = [p \in Procs |-> "idle"]
    /\ args = [p \in Procs |-> NoArgs]
    /\ loc = [p \in Procs |-> NoLoc]
    /\ tx = [p \in Procs |-> NoTx]
    /\ ops = 0
    /\ faults = 0
    /\ spent = 0
    /\ written = 0

NextGrow ==
    \E p \in Procs :
        \/ Solo(p) /\ \E ft \in SoloPairs, a \in SoloAmounts :
                          TransferCoins(p, ft[1], ft[2], a)
        \/ Solo(p) /\ BeginTransaction(p)
        \/ Solo(p) /\ GetFromEmployee(p)
        \/ Solo(p) /\ GetToEmployee(p)
        \/ Solo(p) /\ UpdateFromCoins(p)
        \/ Solo(p) /\ UpdateToCoins(p)
        \/ Solo(p) /\ RecordTransactionTx(p)
        \/ Solo(p) /\ Deferred(p)
        \/ Solo(p) /\ \E n \in ConcItems : BuyMerch(p, 1, n)
        \/ Solo(p) /\ GetMerchPrice(p)
        \/ Solo(p) /\ GetEmployeeByID(p)
        \/ Solo(p) /\ UpdateEmployeeCoins(p)
        \/ Solo(p) /\ AddToInventory(p)
        \/ Solo(p) /\ \E u \in Usernames, w \in Passwords : Authenticate(p, u, w)
        \/ Solo(p) /\ GetEmployeeByUsername(p)
        \/ Solo(p) /\ CreateEmployee(p)
        \/ Solo(p) /\ Respond(p)

SpecGrow == InitGrow /\ [][NextGrow]_vars

\* ------------------------------------------------------- the HTTP handlers
StatusOK == 200
StatusBadRequest == 400
StatusUnauthorized == 401
StatusInternalServerError == 500

\* http.Error(w, ..., code); return
Reply(p, code) ==
    /\ pc' = [pc EXCEPT ![p] = "replied"]
    /\ loc' = [loc EXCEPT ![p].status = code]
    /\ args' = args

\* the handler has called a usecase function and maps what it returned
ReplyAfter(p, req, failed) ==
    /\ pc[p] = "done"
    /\ args[p].req = req
    /\ pc' = [pc EXCEPT ![p] = "replied"]
    /\ loc' = [loc EXCEPT ![p].status = IF loc[p].err # NoErr THEN failed ELSE StatusOK]
    /\ args' = args
    /\ UNCHANGED <<employees, inventory, transactions, tx, ops, faults, spent, written>>

\* a request arrives at a handler
Arrive(p, request) ==
    /\ pc[p] = "idle"
    /\ ops < MaxOps
    /\ ops' = ops + 1
    /\ args' = [args EXCEPT ![p] = request]
    /\ UNCHANGED <<employees, inventory, transactions, loc, tx, faults, spent, written>>

\* h.employeeUsecase.GetEmployeeIDByUsername(username): SELECT id FROM
\* employees WHERE name = $1, any error is returned unchanged
LookupFails(o, username) == o = "fault" \/ RowsNamed(username) = {}

\* SendCoin
SendCoin(p, body, claims, user, toUser, amount) ==
    /\ Arrive(p, [NoArgs EXCEPT !.req = "sendCoin", !.body = body, !.claims = claims,
                                !.user = user, !.toUser = toUser, !.amount = amount])
    /\ pc' = [pc EXCEPT ![p] = "s_decode"]

\* json Decode of the body, then the claims of the request context
SendCoinDecode(p) ==
    /\ pc[p] = "s_decode"
    /\ IF ~args[p].body THEN Reply(p, StatusBadRequest)
       ELSE IF ~args[p].claims THEN Reply(p, StatusUnauthorized)
       ELSE /\ pc' = [pc EXCEPT ![p] = "s_from"]
            /\ UNCHANGED <<args, loc>>
    /\ UNCHANGED <<employees, inventory, transactions, tx, ops, faults, spent, written>>

SendCoinFrom(p) ==
    /\ pc[p] = "s_from"
    /\ \E o \in Outcomes :
        /\ faults' = Count(o)
        /\ IF LookupFails(o, args[p].user)
           THEN /\ pc' = [pc EXCEPT ![p] = "replied"]
                /\ loc' = [loc EXCEPT ![p].status = StatusInternalServerError,
                              ![p].called = @ \cup {"GetEmployeeIDByUsername"}]
                /\ args' = args
           ELSE \E i \in RowsNamed(args[p].user) :
                /\ pc' = [pc EXCEPT ![p] = "s_to"]
                /\ loc' = [loc EXCEPT ![p].called = @ \cup {"GetEmployeeIDByUsername"}]
                /\ args' = [args EXCEPT ![p].from = i]
    /\ UNCHANGED <<employees, inventory, transactions, tx, ops, spent, written>>

\* the recipient lookup, then the call of TransferCoins
SendCoinTo(p) ==
    /\ pc[p] = "s_to"
    /\ \E o \in Outcomes :
        /\ faults' = Count(o)
        /\ IF LookupFails(o, args[p].toUser)
           THEN Reply(p, StatusBadRequest)
           ELSE \E i \in RowsNamed(args[p].toUser) :
                /\ pc' = [pc EXCEPT ![p] = "t_begin"]
                /\ loc' = [loc EXCEPT ![p].called = @ \cup {"TransferCoins"}]
                /\ args' = [args EXCEPT ![p].to = i, ![p].op = "transfer"]
    /\ UNCHANGED <<employees, inventory, transactions, tx, ops, spent, written>>

SendCoinReply(p) == ReplyAfter(p, "sendCoin", StatusInternalServerError)

\* BuyItem
BuyItem(p, claims, user, itemName) ==
    /\ Arrive(p, [NoArgs EXCEPT !.req = "buy", !.claims = claims, !.user = user,
                                !.item = itemName])
    /\ pc' = [pc EXCEPT ![p] = "y_claims"]

BuyItemClaims(p) ==
    /\ pc[p] = "y_claims"
    /\ IF ~args[p].claims THEN Reply(p, StatusUnauthorized)
       ELSE /\ pc' = [pc EXCEPT ![p] = "y_id"]
            /\ UNCHANGED <<args, loc>>
    /\ UNCHANGED <<employees, inventory, transactions, tx, ops, faults, spent, written>>

\* the buyer lookup, then the call of BuyMerch
BuyItemID(p) ==
    /\ pc[p] = "y_id"
    /\ \E o \in Outcomes :
        /\ faults' = Count(o)
        /\ IF LookupFails(o, args[p].user)
           THEN /\ pc' = [pc EXCEPT ![p] = "replied"]
                /\ loc' = [loc EXCEPT ![p].status = StatusInternalServerError,
                              ![p].called = @ \cup {"GetEmployeeIDByUsername"}]
                /\ args' = args
           ELSE \E i \in RowsNamed(args[p].user) :
                /\ pc' = [pc EXCEPT ![p] = "b_price"]
                /\ loc' = [loc EXCEPT ![p].called =
                              @ \cup {"GetEmployeeIDByUsername", "BuyMerch"}]
                /\ args' = [args EXCEPT ![p].from = i, ![p].op = "buy"]
    /\ UNCHANGED <<employees, inventory, transactions, tx, ops, spent, written>>

BuyItemReply(p) == ReplyAfter(p, "buy", StatusInternalServerError)

\* GetInfo
GetInfo(p, claims, user) ==
    /\ Arrive(p, [NoArgs EXCEPT !.req = "info", !.claims = claims, !.user = user])
    /\ pc' = [pc EXCEPT ![p] = "g_claims"]

GetInfoClaims(p) ==
    /\ pc[p] = "g_claims"
    /\ IF ~args[p].claims THEN Reply(p, StatusUnauthorized)
       ELSE /\ pc' = [pc EXCEPT ![p] = "g_id"]
            /\ UNCHANGED <<args, loc>>
    /\ UNCHANGED <<employees, inventory, transactions, tx, ops, faults, spent, written>>

\* the lookup of the caller, then the call of GetEmployeeInfo
GetInfoID(p) ==
    /\ pc[p] = "g_id"
    /\ \E o \in Outcomes :
        /\ faults' = Count(o)
        /\ IF LookupFails(o, args[p].user)
           THEN /\ pc' = [pc EXCEPT ![p] = "replied"]
                /\ loc' = [loc EXCEPT ![p].status = StatusInternalServerError,
                              ![p].called = @ \cup {"GetEmployeeIDByUsername"}]
                /\ args' = args
           ELSE \E i \in RowsNamed(args[p].user) :
                /\ pc' = [pc EXCEPT ![p] = "i_emp"]
                /\ loc' = [loc EXCEPT ![p].called =
                              @ \cup {"GetEmployeeIDByUsername", "GetEmployeeInfo"}]
                /\ args' = [args EXCEPT ![p].from = i, ![p].op = "info"]
    /\ UNCHANGED <<employees, inventory, transactions, tx, ops, spent, written>>

GetInfoReply(p) == ReplyAfter(p, "info", StatusInternalServerError)

\* Authenticate of the handler
HandlerAuthenticate(p, body, username, password) ==
    /\ Len(employees) + Cardinality(Authenticating) < MaxAccounts
    /\ Arrive(p, [NoArgs EXCEPT !.req = "auth", !.body = body, !.name = username,
                                !.password = password])
    /\ pc' = [pc EXCEPT ![p] = "h_decode"]

\* json Decode of the body, then the call of the usecase's Authenticate
HandlerAuthenticateDecode(p) ==
    /\ pc[p] = "h_decode"
    /\ IF ~args[p].body THEN Reply(p, StatusBadRequest)
       ELSE /\ pc' = [pc EXCEPT ![p] = "a_get"]
            /\ loc' = [loc EXCEPT ![p].called = @ \cup {"Authenticate"}]
            /\ args' = [args EXCEPT ![p].op = "auth"]
    /\ UNCHANGED <<employees, inventory, transactions, tx, ops, faults, spent, written>>

HandlerAuthenticateReply(p) == ReplyAfter(p, "auth", StatusUnauthorized)

\* One employee is registered (alice).  Every worker serves one request of one
\* of the four routes; the request may have a body that does not decode and a
\* context without claims.
HttpAmounts == {StartCoins \div 2, StartCoins + (StartCoins \div 2)}

StepHttp(p) ==
    \/ \E b \in BOOLEAN, c \in BOOLEAN, u \in Usernames, t \in Usernames,
          a \in HttpAmounts : SendCoin(p, b, c, u, t, a)
    \/ SendCoinDecode(p)
    \/ SendCoinFrom(p)
    \/ SendCoinTo(p)
    \/ SendCoinReply(p)
    \/ \E c \in BOOLEAN, u \in Usernames, n \in ItemNames : BuyItem(p, c, u, n)
    \/ BuyItemClaims(p)
    \/ BuyItemID(p)
    \/ BuyItemReply(p)
    \/ \E c \in BOOLEAN, u \in Usernames : GetInfo(p, c, u)
    \/ GetInfoClaims(p)
    \/ GetInfoID(p)
    \/ GetInfoReply(p)
    \/ \E b \in BOOLEAN, u \in Usernames, w \in Passwords :
          HandlerAuthenticate(p, b, u, w)
    \/ HandlerAuthenticateDecode(p)
    \/ HandlerAuthenticateReply(p)
    \/ BeginTransaction(p)
    \/ GetFromEmployee(p)
    \/ GetToEmployee(p)
    \/ UpdateFromCoins(p)
    \/ UpdateToCoins(p)
    \/ RecordTransactionTx(p)
    \/ Deferred(p)
    \/ GetMerchPrice(p)
    \/ GetEmployeeByID(p)
    \/ UpdateEmployeeCoins(p)
    \/ AddToInventory(p)
    \/ InfoGetEmployeeByID(p)
    \/ GetEmployeeInventory(p)
    \/ GetEmployeeCoinHistoryR(p)
    \/ GetEmployeeCoinHistoryS(p)
    \/ GetEmployeeByUsername(p)
    \/ CreateEmployee(p)

NextHttp == \E p \in Procs : StepHttp(p)

SpecHttp == InitGrow /\ [][NextHttp]_vars

\* ------------------------------------------------------------------ helpers
RECURSIVE SumCoins(_)
SumCoins(tbl) == IF tbl = <<>> THEN 0 ELSE Head(tbl).coins + SumCoins(Tail(tbl))

IsTransfer(p) == args[p].op = "transfer"
IsBuy(p) == args[p].op = "buy"
IsInfo(p) == args[p].op = "info"
IsAuth(p) == args[p].op = "auth"
TransferBody == {"t_from", "t_to", "t_updFrom", "t_updTo", "t_record", "t_defer"}
Quiescent == \A p \in Procs : pc[p] \in {"idle", "done"}
\* every worker has returned from its request and no repository call has failed
AllDone == (\A p \in Procs : pc[p] = "done") /\ faults = 0

\* ------------------------------------------------------------------- claims

\* C1 (SpecSeq): conservation.  With invocations executed one after another,
\* every TransferCoins that returns success leaves the sum of all account
\* balances as it was before the call, whatever sender, recipient and amount.
C1_Conservation ==
    [][\A p \in Procs :
          (/\ IsTransfer(p)
           /\ pc[p] = "t_defer"
           /\ pc'[p] = "done"
           /\ loc'[p].err = NoErr
           /\ loc'[p].durable)
          => SumCoins(employees') = SumCoins(employees)]_vars

\* C2: no overdraft.  In every reachable state every account's stored balance
\* is >= 0.
C2_NoOverdraft == \A i \in 1..Len(employees) : employees[i].coins >= 0

\* C3 (SpecConc): concurrency safety.  When all workers concurrently debit the
\* same sender by the same positive amount a, in favour of another account, and
\* the starting balance is k*a with k <= N, exactly k of them succeed, N-k fail
\* with insufficient coins and the sender ends with the start minus k*a.
SameDebit ==
    /\ \A p \in Procs :
        /\ IsTransfer(p) /\ args[p].amount > 0
        /\ args[p].from # args[p].to
        /\ Exists(args[p].from) /\ Exists(args[p].to)
    /\ \A p, q \in Procs : args[p].from = args[q].from /\ args[p].amount = args[q].amount
C3_ConcurrencySafety ==
    (AllDone /\ SameDebit) =>
        LET p0 == CHOOSE p \in Procs : TRUE
            a == args[p0].amount
            k == StartCoins \div a
        IN  (StartCoins % a = 0 /\ k <= NumProcs) =>
                /\ Cardinality({p \in Procs : loc[p].err = NoErr}) = k
                /\ Cardinality({p \in Procs : loc[p].err = ErrInsufficient}) = NumProcs - k
                /\ employees[args[p0].from].coins = StartCoins - k * a

\* C4: atomicity on rejection.  A TransferCoins that fails with insufficient
\* coins or with a missing sender or recipient has issued no balance update and
\* no ledger insert, and ending it changes no balance, no transfer record and
\* no inventory entry.
Rejected(p) == IsTransfer(p) /\ loc[p].err \in {ErrInsufficient, ErrNoRows}
C4_NoWriteIssued ==
    \A p \in Procs :
        (pc[p] \in {"t_defer", "done"} /\ Rejected(p)) =>
            /\ loc[p].writes = 0
            /\ pc[p] = "t_defer" => tx[p] = NoTx
C4_RejectionStep ==
    \A p \in Procs :
        (pc[p] = "t_defer" /\ Rejected(p) /\ pc'[p] = "done") =>
            UNCHANGED <<employees, transactions, inventory>>
C4_AtomicRejection == [](C4_NoWriteIssued) /\ [][C4_RejectionStep]_vars
\* a transfer whose sender was read and whose recipient does not exist was rolled back
C4_Witness ==
    \E p \in Procs :
        /\ pc[p] = "done" /\ IsTransfer(p)
        /\ loc[p].err = ErrNoRows
        /\ loc[p].fromCoins = StartCoins
        /\ loc[p].rollbacks = 1

\* C5: all-or-nothing transfer.  The only step of a TransferCoins invocation
\* that changes committed balances or the ledger is the end of its transaction,
\* and that step applies either nothing or all three writes: the sender's
\* balance, the recipient's balance and one transfer record.
TransferRecord(p) ==
    [from |-> args[p].from, to |-> args[p].to, amount |-> args[p].amount]
AllThreeApplied(p) ==
    /\ transactions' = Append(transactions, TransferRecord(p))
    /\ Len(employees') = Len(employees)
    /\ \A i \in 1..Len(employees) :
        employees'[i] =
            IF i = args[p].to
            THEN [employees[i] EXCEPT !.coins = loc[p].toCoins + args[p].amount]
            ELSE IF i = args[p].from
            THEN [employees[i] EXCEPT !.coins = loc[p].fromCoins - args[p].amount]
            ELSE employees[i]
C5_Step ==
    \A p \in Procs :
        /\ (pc[p] = "t_defer" /\ pc'[p] = "done") =>
              \/ UNCHANGED <<employees, transactions>>
              \/ AllThreeApplied(p)
        /\ (pc[p] \in {"t_begin"} \cup (TransferBody \ {"t_defer"}) /\ pc'[p] # pc[p]) =>
              UNCHANGED <<employees, transactions>>
C5_AllOrNothing == [][C5_Step]_vars
\* the recipient's update failed after the sender's update was issued, and the
\* transaction was rolled back
C5_Witness ==
    \E p \in Procs :
        /\ pc[p] = "done" /\ IsTransfer(p)
        /\ loc[p].err = ErrPersistence
        /\ loc[p].writes = 1
        /\ loc[p].rollbacks = 1

\* C6: a TransferCoins whose BeginTransaction succeeded ends its transaction
\* exactly once, when it returns: by Commit and never Rollback if and only if it
\* returns no error, by Rollback and never Commit if and only if it returns an
\* error.
C6_CommitOrRollback ==
    \A p \in Procs :
        /\ (IsTransfer(p) /\ pc[p] \in {"t_begin"} \cup TransferBody) =>
              loc[p].commits = 0 /\ loc[p].rollbacks = 0
        /\ (IsTransfer(p) /\ pc[p] = "done" /\ loc[p].began) =>
              /\ loc[p].commits + loc[p].rollbacks = 1
              /\ loc[p].err = NoErr <=> loc[p].commits = 1
              /\ loc[p].err # NoErr <=> loc[p].rollbacks = 1
\* the ledger insert failed after both balance updates, and Rollback was called
C6_Witness ==
    \E p \in Procs :
        /\ pc[p] = "done" /\ IsTransfer(p) /\ loc[p].began
        /\ loc[p].err = ErrPersistence
        /\ loc[p].writes = 2
        /\ loc[p].rollbacks = 1 /\ loc[p].commits = 0

\* C7: TransferCoins returns success only if its transaction was committed: a
\* success result implies that its writes are durably applied.
C7_SuccessIsDurable ==
    \A p \in Procs :
        (IsTransfer(p) /\ pc[p] = "done" /\ loc[p].err = NoErr) => loc[p].durable

\* C8: a TransferCoins with a non-positive amount is rejected before any
\* persistence access: no transaction is begun for it.
C8_NonPositiveRejected ==
    \A p \in Procs :
        (IsTransfer(p) /\ args[p].amount <= 0) =>
            /\ ~loc[p].began
            /\ pc[p] \in {"t_begin", "done"}
            /\ pc[p] = "done" => loc[p].err # NoErr

\* C9: global coin conservation.  Whenever no invocation is in flight, the sum
\* of all balances plus the prices of all successful purchases equals StartCoins
\* times the number of accounts created.
C9_GlobalConservation ==
    Quiescent => SumCoins(employees) + spent = StartCoins * Len(employees)

\* C10 (SpecConc): no lost updates.  When the workers' concurrent requests
\* (purchases, and transfers of a positive amount between two distinct
\* accounts) all return success, every account's final balance is its starting
\* balance plus the amounts credited to it minus the amounts debited from it and
\* the prices it paid.
Delta(p, id) ==
    IF IsBuy(p)
    THEN (IF args[p].from = id THEN 0 - loc[p].price ELSE 0)
    ELSE (IF args[p].to = id THEN args[p].amount ELSE 0)
            - (IF args[p].from = id THEN args[p].amount ELSE 0)
RECURSIVE SumDelta(_, _)
SumDelta(ps, id) ==
    IF ps = {} THEN 0
    ELSE LET p == CHOOSE q \in ps : TRUE IN Delta(p, id) + SumDelta(ps \ {p}, id)
AllSucceeded ==
    /\ AllDone
    /\ \A p \in Procs :
        /\ loc[p].err = NoErr
        /\ IsTransfer(p) => args[p].from # args[p].to /\ args[p].amount > 0
C10_NoLostUpdate ==
    AllSucceeded =>
        \A id \in 1..Len(employees) :
            employees[id].coins = StartCoins + SumDelta(Procs, id)

\* C11 (SpecShop): BuyMerch applies its balance debit and its inventory
\* increment as a pair.  A BuyMerch that has returned has applied both writes or
\* none of them: the buyer's balance is never left reduced by the price without
\* the inventory quantity being incremented.
C11_AtomicPair ==
    \A p \in Procs : (IsBuy(p) /\ pc[p] = "done") => loc[p].writes \in {0, 2}

\* C12 (SpecShop): a rejected purchase changes nothing.  A BuyMerch that fails
\* because the item is not in the catalog, the account does not exist or the
\* balance is lower than the price has issued no write, and none of its steps
\* has changed a balance, an inventory entry or a transfer record.
BuyRejected(p) == IsBuy(p) /\ loc[p].err \in {ErrNoRows, ErrInsufficient}
C12_NoWriteIssued ==
    \A p \in Procs :
        (pc[p] = "done" /\ BuyRejected(p)) => loc[p].writes = 0 /\ ~loc[p].durable
C12_Step ==
    \A p \in Procs :
        (IsBuy(p) /\ pc[p] \in {"b_price", "b_emp"} /\ pc'[p] # pc[p]) =>
            UNCHANGED <<employees, inventory, transactions>>
C12_RejectedPurchase == [](C12_NoWriteIssued) /\ [][C12_Step]_vars
\* a purchase was rejected for a balance lower than the price
C12_Witness ==
    \E p \in Procs :
        /\ pc[p] = "done" /\ IsBuy(p)
        /\ loc[p].err = ErrInsufficient
        /\ loc[p].price = Merch[args[p].item]
        /\ employees[args[p].from].coins < loc[p].price

\* C13 (SpecSolo): a successful BuyMerch executed without overlapping
\* operations decreases the buyer's balance by exactly the catalog price of the
\* item and increases the quantity of the (buyer, item) inventory entry by
\* exactly 1, creating it at quantity 1; it changes nothing else.
Quantity(inv, k) == IF k \in DOMAIN inv THEN inv[k] ELSE 0
BuyKey(p) == <<args[p].from, args[p].item>>
C13_Step ==
    \A p \in Procs :
        IsBuy(p) =>
            /\ (pc[p] \in {"b_price", "b_emp"} /\ pc'[p] # pc[p]) =>
                  UNCHANGED <<employees, inventory>>
            /\ (pc[p] = "b_update" /\ pc'[p] = "b_inv") =>
                  /\ inventory' = inventory
                  /\ Len(employees') = Len(employees)
                  /\ \A i \in 1..Len(employees) :
                        employees'[i] =
                            IF i = args[p].from
                            THEN [employees[i] EXCEPT
                                     !.coins = employees[i].coins - Merch[args[p].item]]
                            ELSE employees[i]
            /\ (pc[p] = "b_inv" /\ pc'[p] = "done" /\ loc'[p].err = NoErr) =>
                  /\ employees' = employees
                  /\ DOMAIN inventory' = DOMAIN inventory \cup {BuyKey(p)}
                  /\ \A k \in DOMAIN inventory' :
                        inventory'[k] = IF k = BuyKey(p)
                                        THEN Quantity(inventory, k) + 1
                                        ELSE inventory[k]
C13_ExactPurchase == [][C13_Step]_vars
\* the same item was bought a second time
C13_Witness ==
    \E p \in Procs :
        /\ pc[p] = "done" /\ IsBuy(p) /\ loc[p].err = NoErr
        /\ Quantity(inventory, BuyKey(p)) = 2

\* C14 (SpecShop): under any interleaving of BuyMerch calls the quantity of
\* the inventory entry of every (account, item) pair equals the number of
\* BuyMerch calls for that account and item that returned success (no entry
\* when there is none).  The table holds one entry per pair (PRIMARY KEY).
Succeeded(id, n) ==
    {p \in Procs : /\ IsBuy(p) /\ pc[p] = "done" /\ loc[p].err = NoErr
                   /\ args[p].from = id /\ args[p].item = n}
C14_QuantityIsCount ==
    /\ DOMAIN inventory \subseteq ShopBuyers \X ItemNames
    /\ \A id \in ShopBuyers, n \in ItemNames :
          /\ Quantity(inventory, <<id, n>>) = Cardinality(Succeeded(id, n))
          /\ <<id, n>> \in DOMAIN inventory => inventory[<<id, n>>] >= 1
\* two concurrent purchases of the same item by the same account succeeded
C14_Witness ==
    \E p, q \in Procs :
        /\ p # q
        /\ p \in Succeeded(1, "pink-hoody") /\ q \in Succeeded(1, "pink-hoody")
        /\ inventory[<<1, "pink-hoody">>] = 2

\* C15 (SpecSolo): a successful TransferCoins(A, B, amount) between two
\* distinct existing accounts, executed without overlapping operations, leaves
\* A's balance reduced by exactly amount and B's increased by exactly amount
\* and adds exactly one transfer record (A, B, amount); a following
\* GetEmployeeInfo lists the ledger's records of the account: those it sent
\* with their recipient, those it received with their sender.
C15_Step ==
    \A p \in Procs :
        (/\ IsTransfer(p) /\ pc[p] = "t_defer" /\ pc'[p] = "done"
         /\ loc'[p].err = NoErr
         /\ args[p].from # args[p].to
         /\ Exists(args[p].from) /\ Exists(args[p].to)) =>
            /\ transactions' = Append(transactions, TransferRecord(p))
            /\ Len(employees') = Len(employees)
            /\ \A i \in 1..Len(employees) :
                  employees'[i].coins =
                      IF i = args[p].from THEN employees[i].coins - args[p].amount
                      ELSE IF i = args[p].to THEN employees[i].coins + args[p].amount
                      ELSE employees[i].coins
C15_Listed ==
    \A p \in Procs :
        (IsInfo(p) /\ pc[p] = "done" /\ loc[p].err = NoErr) =>
            /\ \A i \in 1..Len(transactions) :
                  /\ transactions[i].from = args[p].from =>
                        \E j \in 1..Len(loc[p].info.sent) :
                            loc[p].info.sent[j] = [user |-> transactions[i].to,
                                                   amount |-> transactions[i].amount]
                  /\ transactions[i].to = args[p].from =>
                        \E j \in 1..Len(loc[p].info.received) :
                            loc[p].info.received[j] = [user |-> transactions[i].from,
                                                       amount |-> transactions[i].amount]
            /\ loc[p].info.coins = employees[args[p].from].coins
C15_TransferAndHistory == [](C15_Listed) /\ [][C15_Step]_vars

\* C16 (SpecConc): serializability.  When the workers' concurrent TransferCoins
\* calls, each between two distinct existing accounts, have all returned, none
\* of them with a persistence failure, the final balances, the transfer records
\* and the result of each call are those of running the same calls one at a
\* time in some order.
\* TransferCoins run alone on the tables st.emp, st.recs: its result and writes
SeqTransfer(st, p) ==
    LET f == args[p].from
        t == args[p].to
        a == args[p].amount
        e == IF ~(f \in 1..Len(st.emp)) THEN ErrNoRows
             ELSE IF st.emp[f].coins < a THEN ErrInsufficient
             ELSE IF ~(t \in 1..Len(st.emp)) THEN ErrNoRows
             ELSE NoErr
    IN  IF e # NoErr
        THEN [st EXCEPT !.res[p] = e]
        ELSE [emp |-> SetCoins(SetCoins(st.emp, f, st.emp[f].coins - a),
                               t, st.emp[t].coins + a),
              recs |-> Append(st.recs, [from |-> f, to |-> t, amount |-> a]),
              res |-> [st.res EXCEPT ![p] = NoErr]]
RECURSIVE RunSeq(_, _)
RunSeq(order, st) ==
    IF order = <<>> THEN st ELSE RunSeq(Tail(order), SeqTransfer(st, Head(order)))
Orders == {o \in [1..NumProcs -> Procs] : \A i, j \in 1..NumProcs : o[i] = o[j] => i = j}
Occurrences(recs, r) == Cardinality({i \in 1..Len(recs) : recs[i] = r})
SameRecords(r1, r2) ==
    /\ Len(r1) = Len(r2)
    /\ \A i \in 1..Len(r1) : Occurrences(r1, r1[i]) = Occurrences(r2, r1[i])
C16_Serializable ==
    (/\ AllDone
     /\ \A p \in Procs :
          /\ IsTransfer(p) /\ loc[p].err # ErrPersistence
          /\ args[p].from # args[p].to
          /\ Exists(args[p].from) /\ Exists(args[p].to)) =>
        \E o \in Orders :
            LET st == RunSeq(o, [emp |-> TwoEmployees, recs |-> <<>>,
                                 res |-> [p \in Procs |-> NoErr]])
            IN  /\ st.emp = employees
                /\ SameRecords(st.recs, transactions)
                /\ \A p \in Procs : st.res[p] = loc[p].err

\* C17 (SpecSeq): Authenticate, one invocation at a time.  For a username with
\* no account, a call that returns a token has created exactly one account,
\* with balance 1000 and the given password.  For a username that has an
\* account the call creates or changes no account; it returns a token when the
\* password is the stored one and fails with 'invalid credentials' otherwise.
C17_Step ==
    \A p \in Procs :
        (IsAuth(p) /\ pc[p] \in {"a_get", "a_create"} /\ pc'[p] # pc[p]) =>
            LET rows == RowsNamed(args[p].name)
            IN  /\ (rows = {} /\ pc'[p] = "done" /\ loc'[p].err = NoErr) =>
                      employees' = Append(employees, [name |-> args[p].name,
                                                      password |-> args[p].password,
                                                      coins |-> StartCoins])
                /\ rows # {} => employees' = employees
                /\ (rows # {} /\ pc'[p] = "done") =>
                      \E i \in rows :
                          loc'[p].err = IF employees[i].password = args[p].password
                                        THEN NoErr ELSE ErrInvalidCredentials
C17_Authenticate == [][C17_Step]_vars

\* C18: account identity is unique.  In every reachable state there is at most
\* one account per username.
C18_UniqueIdentity ==
    \A i, j \in 1..Len(employees) : employees[i].name = employees[j].name => i = j

\* C19 (SpecRead): GetEmployeeInfo is a pure read.  None of its steps changes a
\* balance, an inventory entry, a transfer record or an account, and two
\* GetEmployeeInfo calls for the same account, with no write from the first
\* read of the one to the last read of the other, return the same balance, the
\* same inventory entries and the same sent and received histories.
InfoBody == {"i_emp", "i_inv", "i_recv", "i_sent"}
C19_Frame ==
    \A p \in Procs :
        (pc[p] \in InfoBody \/ pc'[p] \in InfoBody) /\ pc'[p] # pc[p] =>
            UNCHANGED <<employees, inventory, transactions>>
Returned(p) == IsInfo(p) /\ pc[p] = "done" /\ loc[p].err = NoErr
C19_SameResult ==
    \A p, q \in Procs :
        (/\ Returned(p) /\ Returned(q)
         /\ args[p].from = args[q].from
         /\ loc[p].v0 = loc[q].v1 /\ loc[q].v0 = loc[p].v1) =>
            loc[p].info = loc[q].info
C19_PureRead == [](C19_SameResult) /\ [][C19_Frame]_vars
\* two summaries of the buyer were returned after a purchase, with no write
\* between them
C19_Witness ==
    \E p, q \in Procs :
        /\ p # q /\ Returned(p) /\ Returned(q)
        /\ args[p].from = args[q].from
        /\ loc[p].v0 = loc[q].v1 /\ loc[q].v0 = loc[p].v1
        /\ loc[p].info.inventory # {}
        /\ loc[p].info.coins < StartCoins

\* C20 (SpecShop): failure outcomes are distinguishable by taxonomy entry.
\* Two TransferCoins or BuyMerch calls that failed for different reasons among
\* insufficient funds, account not found, item not found and persistence
\* failure have returned different results.
Failed(p) == (IsBuy(p) \/ IsTransfer(p)) /\ pc[p] = "done" /\ loc[p].err # NoErr
\* why the call failed: a repository failure, else what the tables hold (the
\* accounts and the catalog do not change here)
Cause(p) ==
    IF loc[p].err = ErrPersistence THEN "persistence failure"
    ELSE IF IsBuy(p) /\ ~(args[p].item \in DOMAIN Merch) THEN "item not found"
    ELSE IF \/ ~Exists(args[p].from)
            \/ IsTransfer(p) /\ loc[p].fromCoins >= args[p].amount
                             /\ ~Exists(args[p].to)
    THEN "account not found"
    ELSE "insufficient funds"
C20_Distinguishable ==
    \A p, q \in Procs :
        (Failed(p) /\ Failed(q) /\ Cause(p) # Cause(q)) => loc[p].err # loc[q].err

\* C21 (SpecFair): every TransferCoins invocation eventually reaches a terminal
\* state, committed or aborted, under fair scheduling, also when it contends
\* with other transfers for the same rows: two concurrent transfers in opposite
\* directions do not block each other for ever.
C21_Terminates == \A p \in Procs : (pc[p] = "t_begin") ~> (pc[p] = "done")
\* two transfers in opposite directions held one row each; one of them was
\* aborted and the other committed
C21_Witness ==
    \E p, q \in Procs :
        /\ pc[p] = "done" /\ pc[q] = "done" /\ faults = 0
        /\ args[p].from = args[q].to /\ args[p].to = args[q].from
        /\ args[p].from # args[p].to
        /\ loc[p].err = ErrPersistence /\ loc[p].writes = 1 /\ loc[p].rollbacks = 1
        /\ loc[q].err = NoErr /\ loc[q].durable

\* the positions a TransferCoins invocation can move to from each position
TransferEdges ==
    {<<"idle", "t_begin">>, <<"t_begin", "t_from">>, <<"t_begin", "done">>,
     <<"t_from", "t_to">>, <<"t_from", "t_defer">>,
     <<"t_to", "t_updFrom">>, <<"t_to", "t_defer">>,
     <<"t_updFrom", "t_updTo">>, <<"t_updFrom", "t_defer">>,
     <<"t_updTo", "t_record">>, <<"t_updTo", "t_defer">>,
     <<"t_record", "t_defer">>, <<"t_defer", "done">>}
\* what an invocation has done when it stands at a position: nothing is written
\* before both reads and the check, the sender's row is written before the
\* recipient's, both before the record
C22_Position(p) ==
    /\ pc[p] \in {"t_begin", "t_from", "t_to", "t_updFrom"} =>
            loc[p].writes = 0 /\ tx[p] = NoTx
    /\ pc[p] \in {"t_from", "t_to", "t_updFrom", "t_updTo", "t_record", "t_defer"} =>
            loc[p].began
    /\ pc[p] \in {"t_to", "t_updFrom", "t_updTo", "t_record"} =>
            loc[p].err = NoErr /\ loc[p].fromCoins >= args[p].amount
    /\ pc[p] = "t_updTo" =>
            loc[p].writes = 1 /\ DOMAIN tx[p].coins = {args[p].from}
                              /\ tx[p].recs = <<>>
    /\ pc[p] = "t_record" =>
            loc[p].writes = 2 /\ DOMAIN tx[p].coins = {args[p].from, args[p].to}
                              /\ tx[p].recs = <<>>
    /\ pc[p] = "t_defer" /\ loc[p].err = NoErr =>
            loc[p].writes = 3 /\ Len(tx[p].recs) = 1
    /\ pc[p] = "done" /\ loc[p].commits = 1 =>
            loc[p].writes = 3 /\ loc[p].err = NoErr
C22_Step(p) ==
    (IsTransfer(p)' /\ pc'[p] # pc[p]) =>
        /\ <<pc[p], pc'[p]>> \in TransferEdges
        \* the balance check follows the sender read at once: nothing else is
        \* looked up when the balance is short
        /\ (pc[p] = "t_from" /\ faults' = faults /\ Exists(args[p].from)
               /\ TxCoins(p, args[p].from) < args[p].amount) =>
              loc'[p].err = ErrInsufficient /\ pc'[p] = "t_defer"
\* C22 (SpecOwn): within one TransferCoins invocation the steps occur in the
\* order begin, read sender, check balance, read recipient, write sender, write
\* recipient, insert record, commit, and none happens before or without the
\* earlier ones; a call with an insufficient balance and a missing recipient
\* fails with insufficient coins, the recipient is never looked up.
C22_StepOrder ==
    /\ [](\A p \in Procs : IsTransfer(p) => C22_Position(p))
    /\ [][\A p \in Procs : C22_Step(p)]_vars
    /\ [](\A p \in Procs :
            (IsTransfer(p) /\ pc[p] \in {"t_defer", "done"}
                /\ Exists(args[p].from) /\ ~Exists(args[p].to)
                /\ loc[p].fromCoins < args[p].amount)
            => loc[p].err # ErrNoRows)
\* a transfer to a missing account from a sender with too few coins has
\* failed with insufficient coins
C22_Witness ==
    \E p \in Procs :
        /\ IsTransfer(p) /\ pc[p] = "done"
        /\ Exists(args[p].from) /\ ~Exists(args[p].to)
        /\ loc[p].fromCoins < args[p].amount
        /\ loc[p].err = ErrInsufficient /\ loc[p].rollbacks = 1

\* With one invocation at a time the committed tables are, until the
\* invocation's own first committed write, the tables before the call.
\* the return of a transfer between two different existing accounts, with no
\* failed repository call
C23_Transfer(p) ==
    (/\ IsTransfer(p) /\ pc[p] = "t_defer" /\ pc'[p] = "done"
     /\ args[p].from # args[p].to
     /\ Exists(args[p].from) /\ Exists(args[p].to)
     /\ loc'[p].err # ErrPersistence
     /\ loc'[p].err = NoErr => loc'[p].durable)
    => LET balance == employees[args[p].from].coins
       IN  /\ loc'[p].err = ErrInsufficient <=> balance < args[p].amount
           /\ loc'[p].err = NoErr <=> balance >= args[p].amount
           /\ (loc'[p].err = NoErr /\ balance = args[p].amount) =>
                 employees'[args[p].from].coins = 0
\* the steps of a purchase by an existing account, with no failed repository call
C23_Buy(p) ==
    (IsBuy(p) /\ Exists(args[p].from) /\ faults' = faults) =>
        LET balance == employees[args[p].from].coins
            price == Merch[args[p].item]
        IN  /\ (pc[p] = "b_emp" /\ pc'[p] # pc[p]) =>
                /\ (pc'[p] = "done" /\ loc'[p].err = ErrInsufficient)
                        <=> balance < price
                /\ (pc'[p] = "b_update" /\ loc'[p].coins = balance)
                        <=> balance >= price
            /\ (pc[p] = "b_update" /\ pc'[p] # pc[p]) =>
                /\ pc'[p] = "b_inv"
                /\ employees'[args[p].from].coins = loc[p].coins - price
            /\ (pc[p] = "b_inv" /\ pc'[p] # pc[p]) =>
                /\ pc'[p] = "done" /\ loc'[p].err = NoErr
                /\ employees' = employees
SameBut(old, new, ids) ==
    /\ Len(new) = Len(old)
    /\ \A i \in 1..Len(old) :
          IF i \in ids THEN new[i] = [old[i] EXCEPT !.coins = new[i].coins]
                       ELSE new[i] = old[i]
C24_Step(p) ==
    /\ (IsTransfer(p)' /\ pc'[p] # pc[p]) =>
          /\ inventory' = inventory
          /\ SameBut(employees, employees', {args'[p].from, args'[p].to})
    /\ (IsBuy(p)' /\ pc'[p] # pc[p]) =>
          /\ transactions' = transactions
          /\ SameBut(employees, employees', {args'[p].from})
          /\ \A k \in (DOMAIN inventory \cup DOMAIN inventory') \ {BuyKey(p)'} :
                k \in DOMAIN inventory /\ k \in DOMAIN inventory'
                    /\ inventory'[k] = inventory[k]
\* C24 (SpecOwn): frame.  A TransferCoins call changes nothing except the
\* balances of its sender and recipient and the transfer ledger; a BuyMerch
\* call changes nothing except the buyer's balance and the buyer's inventory
\* entry for that item.  (The catalog is the fixed table Merch.)
C24_Frame == [][\A p \in Procs : C24_Step(p)]_vars
\* a purchase and a transfer of employee 1 to itself have both succeeded,
\* the row of employee 2 is as it was
C24_Witness ==
    \E p, q \in Procs :
        /\ IsBuy(p) /\ pc[p] = "done" /\ loc[p].err = NoErr
        /\ IsTransfer(q) /\ pc[q] = "done" /\ loc[q].err = NoErr /\ loc[q].durable
        /\ args[q].from = 1 /\ args[q].to = 1
        /\ employees[2] = TwoEmployees[2]
        /\ employees[1].coins # StartCoins

\* C25 (SpecGrow): the ledger and the account set only grow.  No operation
\* removes a committed transfer record or changes its sender, recipient or
\* amount; no operation deletes an account or changes its username; inventory
\* quantities never decrease.
C25_Step ==
    /\ Len(transactions') >= Len(transactions)
    /\ \A i \in 1..Len(transactions) : transactions'[i] = transactions[i]
    /\ Len(employees') >= Len(employees)
    /\ \A i \in 1..Len(employees) : employees'[i].name = employees[i].name
    /\ DOMAIN inventory \subseteq DOMAIN inventory'
    /\ \A k \in DOMAIN inventory : inventory'[k] >= inventory[k]
C25_OnlyGrow == [][C25_Step]_vars
\* an account was created, a transfer was committed and an item was bought
C25_Witness ==
    /\ Len(employees) > Len(OneEmployee)
    /\ Len(transactions) >= 1
    /\ \E k \in DOMAIN inventory : inventory[k] >= 1

\* C26 (SpecSeq): every committed transfer record has amount > 0 and names a
\* sender and a recipient that are both existing accounts, in every reachable
\* state and for any arguments passed to TransferCoins.
C26_RecordsWellFormed ==
    \A i \in 1..Len(transactions) :
        /\ transactions[i].amount > 0
        /\ Exists(transactions[i].from)
        /\ Exists(transactions[i].to)

\* C28 (SpecSeq): self-transfer is neutral.  A successful TransferCoins whose
\* sender and recipient are the same account, with an amount not exceeding the
\* balance, leaves that account's balance equal to its value before the call.
C28_SelfTransferNeutral ==
    [][\A p \in Procs :
          (/\ IsTransfer(p) /\ pc[p] = "t_defer" /\ pc'[p] = "done"
           /\ args[p].from = args[p].to
           /\ Exists(args[p].from)
           /\ args[p].amount > 0
           /\ args[p].amount <= employees[args[p].from].coins
           /\ loc'[p].err = NoErr /\ loc'[p].durable)
          => employees'[args[p].from].coins = employees[args[p].from].coins]_vars

\* C29 (SpecSeq): direction of flow.  For distinct sender and recipient and any
\* integer amount, no TransferCoins call ever increases the sender's balance or
\* decreases the recipient's balance.
C29_DirectionOfFlow ==
    [][\A p \in Procs :
          (/\ IsTransfer(p) /\ pc[p] = "t_defer" /\ pc'[p] = "done"
           /\ args[p].from # args[p].to
           /\ Exists(args[p].from) /\ Exists(args[p].to))
          => /\ employees'[args[p].from].coins <= employees[args[p].from].coins
             /\ employees'[args[p].to].coins >= employees[args[p].to].coins]_vars

\* C27 (SpecRead): snapshot consistency of the summary.  Every result of
\* GetEmployeeInfo, also when it runs concurrently with TransferCoins and
\* BuyMerch, equals the account's (balance, inventory, received history, sent
\* history) in one single committed state.
C27_Snapshot ==
    \A p \in Procs :
        (Returned(p) /\ IsInfo(p)) => loc[p].info \in loc[p].views

\* what the request of worker p has led to
Protected == {"sendCoin", "buy", "info"}
Replied(p) == pc[p] = "replied"
\* SendCoin calls TransferCoins only with the ids of the two usernames
C30_BothResolved(p) ==
    (args[p].req = "sendCoin" /\ "TransferCoins" \in loc[p].called) =>
        /\ Exists(args[p].from) /\ employees[args[p].from].name = args[p].user
        /\ Exists(args[p].to) /\ employees[args[p].to].name = args[p].toUser
\* an unknown recipient: 400, TransferCoins is not called, no table changes
C30_UnknownRecipient(p) ==
    (pc[p] = "s_to" /\ pc'[p] # pc[p] /\ RowsNamed(args[p].toUser) = {}) =>
        /\ Replied(p)' /\ loc'[p].status = StatusBadRequest
        /\ "TransferCoins" \notin loc'[p].called
        /\ UNCHANGED <<employees, inventory, transactions>>
\* an error of TransferCoins or of BuyMerch: 500
C30_UsecaseError(p) ==
    (Replied(p) /\ args[p].req \in {"sendCoin", "buy"} /\ loc[p].err # NoErr
        /\ loc[p].called \cap {"TransferCoins", "BuyMerch"} # {}) =>
        loc[p].status = StatusInternalServerError
\* no verified claims: 401 and no usecase function is called
C30_NoClaims(p) ==
    (Replied(p) /\ args[p].req \in Protected /\ ~args[p].claims) =>
        loc[p].status = StatusUnauthorized /\ loc[p].called = {}
\* the usecase's Authenticate failed: 401
C30_AuthenticateFailed(p) ==
    (Replied(p) /\ args[p].req = "auth" /\ "Authenticate" \in loc[p].called
        /\ loc[p].err # NoErr) =>
        loc[p].status = StatusUnauthorized
====
